---- MODULE Spec2Model ----
(***************************************************************************)
(* Model of hw_01.py: validated fields, Record, AddressBook, the command   *)
(* handlers, pickle persistence and the command loop of main().            *)
(*                                                                         *)
(* Python strings are sequences of one-character strings, so that the      *)
(* regular expression of Phone and str.split are computed character by     *)
(* character.  A value passed in an argument list is tagged with its       *)
(* Python type ("str" or "list"), because main() hands the handlers a list *)
(* whose only element is itself a list.                                    *)
(***************************************************************************)
EXTENDS Integers, Sequences, FiniteSets, TLC

VARIABLES book, op, result, upcoming, today, disk, closed, pc, display

vars == <<book, op, result, upcoming, today, disk, closed, pc, display>>

(***************************************************************************)
(* Bounds of the model.                                                    *)
(***************************************************************************)
MaxPhones == 2
FirstYear == 2023
LastYear == 2024

(***************************************************************************)
(* Strings and Python values.                                              *)
(***************************************************************************)
Digits == {"0", "1", "2", "3", "4", "5", "6", "7", "8", "9"}

Str(s) == [t |-> "str", v |-> s]

List(l) == [t |-> "list", v |-> l]

IsStr(x) == x.t = "str"

John == <<"J", "o", "h", "n">>
Jane == <<"J", "a", "n", "e">>
Bob == <<"B", "o", "b">>
EmptyStr == <<>>

P1234567890 == <<"1", "2", "3", "4", "5", "6", "7", "8", "9", "0">>
P5555555555 == <<"5", "5", "5", "5", "5", "5", "5", "5", "5", "5">>
P1112223333 == <<"1", "1", "1", "2", "2", "2", "3", "3", "3", "3">>
P9876543210 == <<"9", "8", "7", "6", "5", "4", "3", "2", "1", "0">>
PLetter == <<"1", "2", "3", "4", "5", "6", "7", "8", "9", "a">>
PNewline == P1234567890 \o <<"\n">>

B10081990 == <<"1", "0", ".", "0", "8", ".", "1", "9", "9", "0">>
B15081992 == <<"1", "5", ".", "0", "8", ".", "1", "9", "9", "2">>
B29021992 == <<"2", "9", ".", "0", "2", ".", "1", "9", "9", "2">>
B28121990 == <<"2", "8", ".", "1", "2", ".", "1", "9", "9", "0">>
B03011990 == <<"0", "3", ".", "0", "1", ".", "1", "9", "9", "0">>
B31022020 == <<"3", "1", ".", "0", "2", ".", "2", "0", "2", "0">>

\* Strings the clients of the model pass as names and phones: the phones a
\* call adds, the phones it looks for, and the phones an edit puts in.
Names == {John, Jane}
NameInputs == Names \cup {EmptyStr}
PhoneInputs == {P1234567890, P5555555555, PLetter, PNewline}
OldPhoneInputs == {P1234567890, P5555555555}
NewPhoneInputs == {P1112223333, PLetter, PNewline}

(***************************************************************************)
(* Messages and exceptions.  A message is a format with its substituted    *)
(* values; an exception has a type and a message.                          *)
(***************************************************************************)
Msg(fmt, args) == [fmt |-> fmt, args |-> args]

NoMsg == Msg("", <<>>)

Returned(m) == [kind |-> "return", type |-> "str", msg |-> m]

ReturnedNone == [kind |-> "return", type |-> "NoneType", msg |-> NoMsg]

Raised(type, text) == [kind |-> "raise", type |-> type, msg |-> Msg(text, <<>>)]

NoCall == [kind |-> "none", type |-> "", msg |-> NoMsg]

IsRaise(r) == r.kind = "raise"

(***************************************************************************)
(* Fields.                                                                 *)
(***************************************************************************)
\* re.match(r'^\d{10}$', value): ten digits, then the end of the string or
\* a final newline ('$' also matches just before a trailing newline).
PhoneLen == 10

validate_phone(value) ==
    /\ Len(value) \in {PhoneLen, PhoneLen + 1}
    /\ \A i \in 1..PhoneLen : value[i] \in Digits
    /\ Len(value) = PhoneLen + 1 => value[PhoneLen + 1] = "\n"

\* Phone(value): the exception it raises, or ReturnedNone.
Phone(x) ==
    IF ~IsStr(x) THEN Raised("TypeError", "expected string or bytes-like object")
    ELSE IF ~validate_phone(x.v) THEN Raised("ValueError", "Phone number must be 10 digits long")
    ELSE ReturnedNone

\* Name(value): 'if not value' is true of the empty string and the empty list.
Name(x) ==
    IF Len(x.v) = 0 THEN Raised("ValueError", "Name cannot be empty")
    ELSE ReturnedNone

NoBirthday == [y |-> 0, m |-> 0, d |-> 0]

(***************************************************************************)
(* Record.  The methods work on the record's phone list and return the     *)
(* new list with the outcome of the call.                                  *)
(***************************************************************************)
NewRecord(name) == [name |-> name, phones |-> <<>>, birthday |-> NoBirthday]

Outcome(phones, res) == [phones |-> phones, res |-> res]

Matches(phones, x) == {i \in 1..Len(phones) : IsStr(x) /\ phones[i] = x.v}

Min(S) == CHOOSE i \in S : \A j \in S : i <= j

RemoveAt(s, i) == [j \in 1..(Len(s) - 1) |-> IF j < i THEN s[j] ELSE s[j + 1]]

add_phone(phones, phone) ==
    IF IsRaise(Phone(phone)) THEN Outcome(phones, Phone(phone))
    ELSE Outcome(Append(phones, phone.v), ReturnedNone)

remove_phone(phones, phone) ==
    IF Matches(phones, phone) = {} THEN Outcome(phones, ReturnedNone)
    ELSE Outcome(RemoveAt(phones, Min(Matches(phones, phone))), ReturnedNone)

edit_phone(phones, old_phone, new_phone) ==
    IF Matches(phones, old_phone) = {} THEN Outcome(phones, ReturnedNone)
    ELSE add_phone(remove_phone(phones, old_phone).phones, new_phone)

NoneStr == <<"N", "o", "n", "e">>

\* The matching value, or None (as it is printed).
find_phone(phones, phone) ==
    IF Matches(phones, phone) = {} THEN NoneStr ELSE phones[Min(Matches(phones, phone))]

(***************************************************************************)
(* Calendar dates (datetime.date) and the Birthday field.                  *)
(***************************************************************************)
Date(y, m, d) == [y |-> y, m |-> m, d |-> d]

IsLeap(y) == (y % 4 = 0 /\ y % 100 # 0) \/ y % 400 = 0

DaysInMonth(y, m) ==
    IF m = 2 THEN (IF IsLeap(y) THEN 29 ELSE 28)
    ELSE IF m \in {4, 6, 9, 11} THEN 30 ELSE 31

ValidDate(y, m, d) ==
    /\ y \in 1..9999
    /\ m \in 1..12
    /\ d \in 1..DaysInMonth(y, m)

RECURSIVE DaysBeforeMonth(_, _)
DaysBeforeMonth(y, m) ==
    IF m = 1 THEN 0 ELSE DaysBeforeMonth(y, m - 1) + DaysInMonth(y, m - 1)

\* date.toordinal(): 1 for 0001-01-01.
Ordinal(dt) ==
    365 * (dt.y - 1) + ((dt.y - 1) \div 4) - ((dt.y - 1) \div 100) + ((dt.y - 1) \div 400)
        + DaysBeforeMonth(dt.y, dt.m) + dt.d

DateLess(a, b) == Ordinal(a) < Ordinal(b)

DigitChars == <<"0", "1", "2", "3", "4", "5", "6", "7", "8", "9">>

DigitValue(c) == CHOOSE n \in 0..9 : DigitChars[n + 1] = c

RECURSIVE ToInt(_)
ToInt(s) ==
    IF Len(s) = 0 THEN 0
    ELSE 10 * ToInt(SubSeq(s, 1, Len(s) - 1)) + DigitValue(s[Len(s)])

Pad2(n) == <<DigitChars[(n \div 10) + 1], DigitChars[(n % 10) + 1]>>

Pad4(n) == Pad2(n \div 100) \o Pad2(n % 100)

\* Birthday.__str__: strftime("%d.%m.%Y").
Strftime(dt) == Pad2(dt.d) \o <<".">> \o Pad2(dt.m) \o <<".">> \o Pad4(dt.y)

\* str(date): ISO format.
IsoFormat(dt) == Pad4(dt.y) \o <<"-">> \o Pad2(dt.m) \o <<"-">> \o Pad2(dt.d)

AllDigits(s) == \A i \in 1..Len(s) : s[i] \in Digits

Dots(s) == {i \in 1..Len(s) : s[i] = "."}

\* The groups strptime's regular expression accepts for %d, %m and %Y.
DayGroup(s) ==
    \/ Len(s) = 2 /\ AllDigits(s) /\ ToInt(s) \in 1..31
    \/ Len(s) = 1 /\ AllDigits(s) /\ ToInt(s) \in 1..9
    \/ Len(s) = 2 /\ s[1] = " " /\ s[2] \in Digits \ {"0"}

MonthGroup(s) ==
    \/ Len(s) = 2 /\ AllDigits(s) /\ ToInt(s) \in 1..12
    \/ Len(s) = 1 /\ AllDigits(s) /\ ToInt(s) \in 1..9

YearGroup(s) == Len(s) = 4 /\ AllDigits(s)

Field1(s) == SubSeq(s, 1, Min(Dots(s)) - 1)

Rest1(s) == SubSeq(s, Min(Dots(s)) + 1, Len(s))

GroupInt(s) == IF s[1] = " " THEN ToInt(Tail(s)) ELSE ToInt(s)

\* datetime.strptime(value, "%d.%m.%Y").date(), NoBirthday when it raises.
Strptime(s) ==
    IF Cardinality(Dots(s)) # 2 THEN NoBirthday
    ELSE IF ~(DayGroup(Field1(s)) /\ MonthGroup(Field1(Rest1(s))) /\ YearGroup(Rest1(Rest1(s))))
    THEN NoBirthday
    ELSE IF ~ValidDate(ToInt(Rest1(Rest1(s))), GroupInt(Field1(Rest1(s))), GroupInt(Field1(s)))
    THEN NoBirthday
    ELSE Date(ToInt(Rest1(Rest1(s))), GroupInt(Field1(Rest1(s))), GroupInt(Field1(s)))

\* Birthday(value): the exception it raises, or ReturnedNone.
Birthday(x) ==
    IF ~IsStr(x) THEN Raised("TypeError", "strptime() argument 1 must be str, not list")
    ELSE IF Strptime(x.v) = NoBirthday THEN Raised("ValueError", "Invalid date format. Use DD.MM.YYYY")
    ELSE ReturnedNone

(***************************************************************************)
(* AddressBook: a dictionary from the name's string to its Record, kept in *)
(* insertion order.  It is the sequence of its Records.                    *)
(***************************************************************************)
EmptyBook == <<>>

Keys(bk) == {bk[i].name : i \in 1..Len(bk)}

IndexOf(bk, name) == CHOOSE i \in 1..Len(bk) : bk[i].name = name

find(bk, name) == bk[IndexOf(bk, name)]

\* self.data[record.name.value] = record
add_record(bk, record) ==
    IF record.name \in Keys(bk) THEN [bk EXCEPT ![IndexOf(bk, record.name)] = record]
    ELSE Append(bk, record)

delete(bk, name) ==
    IF name \in Keys(bk) THEN RemoveAt(bk, IndexOf(bk, name)) ELSE bk

SetPhones(bk, name, phones) == [bk EXCEPT ![IndexOf(bk, name)].phones = phones]

SetBirthday(bk, name, birthday) == [bk EXCEPT ![IndexOf(bk, name)].birthday = birthday]

\* date.replace(year=...) raises ValueError when the day does not exist.
ReplaceRaises(dt, year) == ~ValidDate(year, dt.m, dt.d)

\* Whether computing next_birthday raises for this birthday.
NextBirthdayRaises(birthday, td) ==
    \/ ReplaceRaises(birthday, td.y)
    \/ /\ DateLess(Date(td.y, birthday.m, birthday.d), td)
       /\ ReplaceRaises(Date(td.y, birthday.m, birthday.d), td.y + 1)

next_birthday(birthday, td) ==
    IF DateLess(Date(td.y, birthday.m, birthday.d), td)
    THEN Date(td.y + 1, birthday.m, birthday.d)
    ELSE Date(td.y, birthday.m, birthday.d)

days_until_birthday(birthday, td) == Ordinal(next_birthday(birthday, td)) - Ordinal(td)

HasBirthday(record) == record.birthday # NoBirthday

IsUpcoming(record, td) ==
    /\ HasBirthday(record)
    /\ 0 <= days_until_birthday(record.birthday, td)
    /\ days_until_birthday(record.birthday, td) <= 6

UpcomingEntry(record, td) ==
    [name |-> record.name,
     birthday |-> IsoFormat(next_birthday(record.birthday, td)),
     days_until_birthday |-> days_until_birthday(record.birthday, td)]

Selected(bk, td) == SelectSeq(bk, LAMBDA record : IsUpcoming(record, td))

\* The list it returns, or the exception that leaves the loop over the Records.
get_upcoming_birthdays(bk, td) ==
    IF \E i \in 1..Len(bk) : HasBirthday(bk[i]) /\ NextBirthdayRaises(bk[i].birthday, td)
    THEN [res |-> Raised("ValueError", "day is out of range for month"), entries |-> <<>>]
    ELSE [res |-> ReturnedNone,
          entries |-> [i \in 1..Len(Selected(bk, td)) |-> UpcomingEntry(Selected(bk, td)[i], td)]]

NoBirthdayStr == <<"N", "o", " ", "b", "i", "r", "t", "h", "d", "a", "y">>

\* Record.__str__
RecordStr(record) ==
    Msg("Contact name: {}, phones: {'; '.join}, birthday: {}",
        <<record.name, IF HasBirthday(record) THEN Strftime(record.birthday) ELSE NoBirthdayStr>>
            \o record.phones)

(***************************************************************************)
(* Persistence: pickle writes the whole book and reads it back.            *)
(***************************************************************************)
NoFile == [exists |-> FALSE, blob |-> <<>>]

\* pickle.dump: every Record becomes its attributes, the date its three numbers.
PickleRecord(record) ==
    [attrs |-> <<record.name>> \o record.phones,
     date |-> IF HasBirthday(record)
              THEN <<record.birthday.y, record.birthday.m, record.birthday.d>>
              ELSE <<>>]

\* pickle.load of one Record.
UnpickleRecord(p) ==
    [name |-> Head(p.attrs),
     phones |-> Tail(p.attrs),
     birthday |-> IF Len(p.date) = 0 THEN NoBirthday ELSE Date(p.date[1], p.date[2], p.date[3])]

save_data(bk) == [exists |-> TRUE, blob |-> [i \in 1..Len(bk) |-> PickleRecord(bk[i])]]

\* FileNotFoundError gives a new AddressBook.
load_data(file) ==
    IF file.exists THEN [i \in 1..Len(file.blob) |-> UnpickleRecord(file.blob[i])]
    ELSE EmptyBook

(***************************************************************************)
(* Command handlers, each wrapped by input_error: an exception becomes its *)
(* message.  A handler returns the book it leaves and the string it        *)
(* returns.                                                                *)
(***************************************************************************)
Handled(bk, m) == [book |-> bk, ret |-> m]

Text(t) == Msg(t, <<>>)

Unhashable == Text("unhashable type: 'list'")

TooMany(n) == Msg("too many values to unpack (expected {})", <<<<DigitChars[n + 1]>>>>)

NotEnough(n, got) ==
    Msg("not enough values to unpack (expected {}, got {})",
        <<<<DigitChars[n + 1]>>, <<DigitChars[got + 1]>>>>)

IndexError == Text("list index out of range")

\* add as it would be if it always stored a new Record under the name.
add_overwrite(args, bk) ==
    IF Len(args) < 2 THEN Handled(bk, Text("Usage: add [name] [phone]"))
    ELSE IF Len(args) # 2 THEN Handled(bk, TooMany(2))
    ELSE IF ~IsStr(args[1]) THEN Handled(bk, Unhashable)
    ELSE IF IsRaise(Name(args[1])) THEN Handled(bk, Name(args[1]).msg)
    ELSE IF IsRaise(add_phone(<<>>, args[2]).res) THEN Handled(bk, add_phone(<<>>, args[2]).res.msg)
    ELSE Handled(add_record(bk, [NewRecord(args[1].v) EXCEPT !.phones = add_phone(<<>>, args[2]).phones]),
                 Msg("Contact {} with phone {} added.", <<args[1].v, args[2].v>>))

add(args, bk) ==
    IF Len(args) < 2 THEN Handled(bk, Text("Usage: add [name] [phone]"))
    ELSE IF Len(args) # 2 THEN Handled(bk, TooMany(2))
    ELSE IF ~IsStr(args[1]) THEN Handled(bk, Unhashable)
    ELSE IF args[1].v \in Keys(bk)
    THEN IF IsRaise(add_phone(find(bk, args[1].v).phones, args[2]).res)
         THEN Handled(bk, add_phone(find(bk, args[1].v).phones, args[2]).res.msg)
         ELSE Handled(SetPhones(bk, args[1].v, add_phone(find(bk, args[1].v).phones, args[2]).phones),
                      Msg("Phone {} added to {}.", <<args[2].v, args[1].v>>))
    ELSE IF IsRaise(Name(args[1])) THEN Handled(bk, Name(args[1]).msg)
    ELSE IF IsRaise(add_phone(<<>>, args[2]).res) THEN Handled(bk, add_phone(<<>>, args[2]).res.msg)
    ELSE Handled(add_record(bk, [NewRecord(args[1].v) EXCEPT !.phones = add_phone(<<>>, args[2]).phones]),
                 Msg("Contact {} with phone {} added.", <<args[1].v, args[2].v>>))

change(args, bk) ==
    IF Len(args) < 3 THEN Handled(bk, Text("Usage: change [name] [old phone] [new phone]"))
    ELSE IF Len(args) # 3 THEN Handled(bk, TooMany(3))
    ELSE IF ~IsStr(args[1]) THEN Handled(bk, Unhashable)
    ELSE IF args[1].v \notin Keys(bk) THEN Handled(bk, Text("Contact not found."))
    ELSE IF IsRaise(edit_phone(find(bk, args[1].v).phones, args[2], args[3]).res)
    THEN Handled(SetPhones(bk, args[1].v, edit_phone(find(bk, args[1].v).phones, args[2], args[3]).phones),
                 edit_phone(find(bk, args[1].v).phones, args[2], args[3]).res.msg)
    ELSE Handled(SetPhones(bk, args[1].v, edit_phone(find(bk, args[1].v).phones, args[2], args[3]).phones),
                 Msg("Phone {} changed to {} for {}.", <<args[2].v, args[3].v, args[1].v>>))

phone(args, bk) ==
    IF Len(args) = 0 THEN Handled(bk, IndexError)
    ELSE IF ~IsStr(args[1]) THEN Handled(bk, Unhashable)
    ELSE IF args[1].v \notin Keys(bk) THEN Handled(bk, Text("Contact not found."))
    ELSE Handled(bk, Msg("Phones for {}: {', '.join}", <<args[1].v>> \o find(bk, args[1].v).phones))

add_birthday(args, bk) ==
    IF Len(args) < 2 THEN Handled(bk, NotEnough(2, Len(args)))
    ELSE IF Len(args) # 2 THEN Handled(bk, TooMany(2))
    ELSE IF ~IsStr(args[1]) THEN Handled(bk, Unhashable)
    ELSE IF args[1].v \notin Keys(bk) THEN Handled(bk, Text("Contact not found."))
    ELSE IF IsRaise(Birthday(args[2])) THEN Handled(bk, Birthday(args[2]).msg)
    ELSE Handled(SetBirthday(bk, args[1].v, Strptime(args[2].v)),
                 Msg("Birthday added for {}.", <<args[1].v>>))

show_birthday(args, bk) ==
    IF Len(args) = 0 THEN Handled(bk, IndexError)
    ELSE IF ~IsStr(args[1]) THEN Handled(bk, Unhashable)
    ELSE IF args[1].v \notin Keys(bk) THEN Handled(bk, Text("Contact not found."))
    ELSE IF HasBirthday(find(bk, args[1].v))
    THEN Handled(bk, Msg("{}'s birthday is {}", <<args[1].v, Strftime(find(bk, args[1].v).birthday)>>))
    ELSE Handled(bk, Msg("{} has no birthday set.", <<args[1].v>>))

birthdays(args, bk, td) ==
    IF IsRaise(get_upcoming_birthdays(bk, td).res)
    THEN Handled(bk, get_upcoming_birthdays(bk, td).res.msg)
    ELSE IF Len(get_upcoming_birthdays(bk, td).entries) = 0
    THEN Handled(bk, Text("No upcoming birthdays in the next 7 days."))
    ELSE Handled(bk, Msg("Name: {}, Birthday: {}",
                         [i \in 1..(2 * Len(get_upcoming_birthdays(bk, td).entries)) |->
                            IF i % 2 = 1
                            THEN get_upcoming_birthdays(bk, td).entries[(i + 1) \div 2].name
                            ELSE get_upcoming_birthdays(bk, td).entries[i \div 2].birthday]))

(***************************************************************************)
(* Calls of the Record and AddressBook methods and of the handlers by a    *)
(* client that holds the book.  op is the function last called and result  *)
(* what that call returned or raised.                                      *)
(***************************************************************************)
RECURSIVE TotalPhones(_)
TotalPhones(bk) == IF Len(bk) = 0 THEN 0 ELSE Len(Head(bk).phones) + TotalPhones(Tail(bk))

Bounded(bk) == TotalPhones(bk) <= MaxPhones

BirthdayInputs == {B10081990, B31022020}

ExtraArg == Str(<<"x">>)

AddArgs ==
    {<<>>, <<Str(John)>>, <<Str(John), Str(P5555555555), ExtraArg>>}
        \cup {<<Str(n), Str(p)>> : n \in NameInputs, p \in PhoneInputs}

ChangeArgs ==
    {<<>>, <<Str(John), Str(P1234567890)>>,
     <<Str(John), Str(P1234567890), Str(P1112223333), ExtraArg>>}
        \cup {<<Str(n), Str(p), Str(q)>> : n \in Names, p \in OldPhoneInputs, q \in NewPhoneInputs}

LibUnchanged == UNCHANGED <<upcoming, today, disk, closed, pc, display>>

\* book.add_record(Record(name))
AddRecordCall(n) ==
    /\ op' = "add_record"
    /\ IF IsRaise(Name(Str(n)))
       THEN book' = book /\ result' = Name(Str(n))
       ELSE book' = add_record(book, NewRecord(n)) /\ result' = ReturnedNone
    /\ LibUnchanged

\* book.delete(name)
DeleteCall(n) ==
    /\ op' = "delete"
    /\ book' = delete(book, n)
    /\ result' = ReturnedNone
    /\ LibUnchanged

\* book.find(name).add_phone(phone)
AddPhoneCall(n, p) ==
    /\ op' = "add_phone"
    /\ n \in Keys(book)
    /\ book' = SetPhones(book, n, add_phone(find(book, n).phones, Str(p)).phones)
    /\ Bounded(book')
    /\ result' = add_phone(find(book, n).phones, Str(p)).res
    /\ LibUnchanged

\* book.find(name).remove_phone(phone)
RemovePhoneCall(n, p) ==
    /\ op' = "remove_phone"
    /\ n \in Keys(book)
    /\ book' = SetPhones(book, n, remove_phone(find(book, n).phones, Str(p)).phones)
    /\ result' = remove_phone(find(book, n).phones, Str(p)).res
    /\ LibUnchanged

\* book.find(name).edit_phone(old_phone, new_phone)
EditPhoneCall(n, old, new) ==
    /\ op' = "edit_phone"
    /\ n \in Keys(book)
    /\ book' = SetPhones(book, n, edit_phone(find(book, n).phones, Str(old), Str(new)).phones)
    /\ result' = edit_phone(find(book, n).phones, Str(old), Str(new)).res
    /\ LibUnchanged

AddCall(args) ==
    /\ op' = "add"
    /\ book' = add(args, book).book
    /\ Bounded(book')
    /\ result' = Returned(add(args, book).ret)
    /\ LibUnchanged

ChangeCall(args) ==
    /\ op' = "change"
    /\ book' = change(args, book).book
    /\ result' = Returned(change(args, book).ret)
    /\ LibUnchanged

AddBirthdayCall(args) ==
    /\ op' = "add_birthday"
    /\ book' = add_birthday(args, book).book
    /\ result' = Returned(add_birthday(args, book).ret)
    /\ LibUnchanged

NoUpcoming == [res |-> NoCall, entries |-> <<>>]

Day0 == Date(FirstYear, 12, 25)

Init ==
    /\ book = EmptyBook
    /\ op = ""
    /\ result = NoCall
    /\ upcoming = NoUpcoming
    /\ today = Day0
    /\ disk = NoFile
    /\ closed = EmptyBook
    /\ pc = "client"
    /\ display = <<>>

Next ==
    \/ \E n \in NameInputs : AddRecordCall(n)
    \/ \E n \in Names : DeleteCall(n)
    \/ \E n \in Names, p \in PhoneInputs : AddPhoneCall(n, p)
    \/ \E n \in Names, p \in OldPhoneInputs : RemovePhoneCall(n, p)
    \/ \E n \in Names, old \in OldPhoneInputs, new \in NewPhoneInputs : EditPhoneCall(n, old, new)
    \/ \E args \in AddArgs : AddCall(args)
    \/ \E args \in ChangeArgs : ChangeCall(args)
    \/ \E n \in Names, b \in BirthdayInputs : AddBirthdayCall(<<Str(n), Str(b)>>)

Spec == Init /\ [][Next]_vars

(***************************************************************************)
(* The birthday query.  datetime.now() is an input: a session runs on one  *)
(* day, drawn from the days around the turn of the year and the end of     *)
(* February in the years of the model.                                     *)
(***************************************************************************)
InWindow(dt) ==
    \/ dt.m = 12 /\ dt.d >= 22
    \/ dt.m = 1 /\ dt.d <= 3
    \/ dt.m = 2 /\ dt.d >= 22
    \/ dt.m = 3 /\ dt.d <= 2

TodayInputs ==
    {dt \in [y : FirstYear..LastYear, m : {12, 1, 2, 3}, d : 1..31] :
        ValidDate(dt.y, dt.m, dt.d) /\ InWindow(dt)}

WinterBirthdayInputs == {B29021992, B28121990, B03011990, B31022020}

QueryUnchanged == UNCHANGED <<book, disk, closed, pc, display, today>>

GetUpcomingBirthdaysCall ==
    /\ op' = "get_upcoming_birthdays"
    /\ upcoming' = get_upcoming_birthdays(book, today)
    /\ result' = IF IsRaise(get_upcoming_birthdays(book, today).res)
                 THEN get_upcoming_birthdays(book, today).res
                 ELSE [kind |-> "return", type |-> "list", msg |-> NoMsg]
    /\ QueryUnchanged

BirthdaysCall ==
    /\ op' = "birthdays"
    /\ result' = Returned(birthdays(<<>>, book, today).ret)
    /\ upcoming' = upcoming
    /\ QueryUnchanged

InitBirthdays ==
    /\ book = EmptyBook
    /\ op = ""
    /\ result = NoCall
    /\ upcoming = NoUpcoming
    /\ today \in TodayInputs
    /\ disk = NoFile
    /\ closed = EmptyBook
    /\ pc = "client"
    /\ display = <<>>

NextBirthdays ==
    \/ \E n \in Names : AddRecordCall(n)
    \/ \E n \in Names, b \in WinterBirthdayInputs : AddBirthdayCall(<<Str(n), Str(b)>>)
    \/ GetUpcomingBirthdaysCall
    \/ BirthdaysCall

SpecBirthdays == InitBirthdays /\ [][NextBirthdays]_vars

(***************************************************************************)
(* main(): the start of a run (load_data and the script that follows it),  *)
(* the command loop, and the next run of the program.  display is what the *)
(* last step printed; closed is the book that was held when the file on    *)
(* disk was written.                                                       *)
(***************************************************************************)
Whitespace == {" ", "\t", "\n"}

RECURSIVE SkipSpace(_)
SkipSpace(s) == IF Len(s) > 0 /\ Head(s) \in Whitespace THEN SkipSpace(Tail(s)) ELSE s

WordLen(s) ==
    IF \E i \in 1..Len(s) : s[i] \in Whitespace
    THEN Min({i \in 1..Len(s) : s[i] \in Whitespace}) - 1
    ELSE Len(s)

\* str.split()
RECURSIVE Split(_)
Split(s) ==
    IF Len(SkipSpace(s)) = 0 THEN <<>>
    ELSE <<SubSeq(SkipSpace(s), 1, WordLen(SkipSpace(s)))>>
            \o Split(SubSeq(SkipSpace(s), WordLen(SkipSpace(s)) + 1, Len(SkipSpace(s))))

\* parse_input returns the pair (parts[0], parts[1:]); it raises IndexError
\* when the line has no token.
ParseRaises(user_input) == Len(Split(user_input)) = 0

parse_input(user_input) ==
    <<Str(Head(Split(user_input))),
      List([i \in 1..(Len(Split(user_input)) - 1) |-> Str(Split(user_input)[i + 1])])>>

\* command, *args = parse_input(user_input)
Command(user_input) == Head(parse_input(user_input)).v

StarArgs(user_input) == Tail(parse_input(user_input))

Sp == <<" ">>
Wadd == <<"a", "d", "d">>
Wchange == <<"c", "h", "a", "n", "g", "e">>
Wphone == <<"p", "h", "o", "n", "e">>
Wall == <<"a", "l", "l">>
Whello == <<"h", "e", "l", "l", "o">>
Wclose == <<"c", "l", "o", "s", "e">>
Wexit == <<"e", "x", "i", "t">>
Wbirthdays == <<"b", "i", "r", "t", "h", "d", "a", "y", "s">>
WaddBirthday == Wadd \o <<"-">> \o SubSeq(Wbirthdays, 1, 8)
WshowBirthday == <<"s", "h", "o", "w", "-">> \o SubSeq(Wbirthdays, 1, 8)
Wfoo == <<"f", "o", "o">>

\* The lines typed at the prompt.
LineInputs ==
    {<<>>, Sp \o Sp, Whello, Wfoo, Wclose, Wexit, Wall, Wbirthdays, Wadd, Wphone,
     Wadd \o Sp \o Bob \o Sp \o P9876543210,
     Sp \o Wadd \o Sp \o Sp \o Jane \o Sp \o P9876543210 \o Sp,
     Wadd \o Sp \o John \o Sp \o P9876543210,
     Wadd \o Sp \o Bob \o Sp \o PLetter,
     Wchange \o Sp \o John \o Sp \o P5555555555 \o Sp \o P9876543210,
     Wphone \o Sp \o John,
     WaddBirthday \o Sp \o John \o Sp \o B29021992,
     WshowBirthday \o Sp \o John}

\* Lines 228-263 of main() on the loaded book.
JohnRecord ==
    [name |-> John,
     phones |-> add_phone(add_phone(<<>>, Str(P1234567890)).phones, Str(P5555555555)).phones,
     birthday |-> Strptime(B10081990)]

JaneRecord ==
    [name |-> Jane,
     phones |-> add_phone(<<>>, Str(P9876543210)).phones,
     birthday |-> Strptime(B15081992)]

WithRecords(bk) == add_record(add_record(bk, JohnRecord), JaneRecord)

JohnEdited(bk) ==
    SetPhones(bk, John, edit_phone(find(bk, John).phones, Str(P1234567890), Str(P1112223333)).phones)

StartBook(bk) == delete(JohnEdited(WithRecords(bk)), Jane)

BookLines(bk) == [i \in 1..Len(bk) |-> RecordStr(bk[i])]

StartOutput(bk, td) ==
    <<Text("Welcome to the assistant bot!"), Text("Address Book:")>>
        \o BookLines(WithRecords(bk))
        \o <<Text("\nUpdated John Record:"), RecordStr(find(JohnEdited(WithRecords(bk)), John)),
             Msg("\nFound Phone for John: {}",
                 <<find_phone(find(JohnEdited(WithRecords(bk)), John).phones, Str(P5555555555))>>),
             Text("Address Book:")>>
        \o BookLines(JohnEdited(WithRecords(bk)))
        \o <<Text("\nAddress Book after deleting Jane:")>>
        \o BookLines(StartBook(bk))
        \o <<Text("\nUpcoming Birthdays:"), birthdays(<<>>, StartBook(bk), td).ret>>

\* ConsoleView.display_contacts
display_contacts(bk) ==
    IF Len(bk) > 0 THEN <<Text("Contacts:")>> \o BookLines(bk)
    ELSE <<Text("No contacts found.")>>

MainUnchanged == UNCHANGED <<op, result, upcoming, today>>

\* From the start of main() to its first prompt.
Startup ==
    /\ pc = "start"
    /\ book' = StartBook(load_data(disk))
    /\ display' = StartOutput(load_data(disk), today)
    /\ pc' = "prompt"
    /\ UNCHANGED <<disk, closed>>
    /\ MainUnchanged

\* An empty line: parse_input raises IndexError, which nothing catches.
EmptyLine(line) ==
    /\ pc = "prompt"
    /\ ParseRaises(line)
    /\ pc' = "crashed"
    /\ display' = <<Text("IndexError: list index out of range")>>
    /\ UNCHANGED <<book, disk, closed>>
    /\ MainUnchanged

CloseCommand(line) ==
    /\ pc = "prompt"
    /\ ~ParseRaises(line)
    /\ Command(line) \in {Wclose, Wexit}
    /\ display' = <<Text("Good bye!")>>
    /\ disk' = save_data(book)
    /\ closed' = book
    /\ pc' = "exited"
    /\ UNCHANGED book
    /\ MainUnchanged

\* The line's first token is the word of an elif branch of the loop.
AtPrompt(line, word) ==
    /\ pc = "prompt"
    /\ ~ParseRaises(line)
    /\ Command(line) = word

\* result = handler(args, book); view.display_message(result)
Displayed(handled) ==
    /\ book' = handled.book
    /\ display' = <<handled.ret>>
    /\ UNCHANGED <<disk, closed, pc>>
    /\ MainUnchanged

HelloCommand(line) ==
    /\ AtPrompt(line, Whello)
    /\ Displayed(Handled(book, Text("How can I help you?")))

AddCommand(line) ==
    /\ AtPrompt(line, Wadd)
    /\ Displayed(add(StarArgs(line), book))

ChangeCommand(line) ==
    /\ AtPrompt(line, Wchange)
    /\ Displayed(change(StarArgs(line), book))

PhoneCommand(line) ==
    /\ AtPrompt(line, Wphone)
    /\ Displayed(phone(StarArgs(line), book))

AddBirthdayCommand(line) ==
    /\ AtPrompt(line, WaddBirthday)
    /\ Displayed(add_birthday(StarArgs(line), book))

ShowBirthdayCommand(line) ==
    /\ AtPrompt(line, WshowBirthday)
    /\ Displayed(show_birthday(StarArgs(line), book))

BirthdaysCommand(line) ==
    /\ AtPrompt(line, Wbirthdays)
    /\ Displayed(birthdays(StarArgs(line), book, today))

AllCommand(line) ==
    /\ AtPrompt(line, Wall)
    /\ display' = display_contacts(book)
    /\ UNCHANGED <<book, disk, closed, pc>>
    /\ MainUnchanged

Commands == {Wclose, Wexit, Whello, Wadd, Wchange, Wphone, Wall, WaddBirthday, WshowBirthday, Wbirthdays}

InvalidCommand(line) ==
    /\ pc = "prompt"
    /\ ~ParseRaises(line)
    /\ Command(line) \notin Commands
    /\ display' = <<Text("Invalid command.")>>
    /\ UNCHANGED <<book, disk, closed, pc>>
    /\ MainUnchanged

\* The program is started again after it ended.
NextRun ==
    /\ pc \in {"exited", "crashed"}
    /\ pc' = "start"
    /\ book' = EmptyBook
    /\ display' = <<>>
    /\ UNCHANGED <<disk, closed>>
    /\ MainUnchanged

\* addressbook.pkl as a run may find it: absent, or written by save_data
\* with the book an earlier session held.
BobRecord == [name |-> Bob, phones |-> <<P9876543210>>, birthday |-> NoBirthday]

SavedBooks ==
    {<<BobRecord>>,
     <<[BobRecord EXCEPT !.birthday = Strptime(B29021992)]>>,
     <<[JaneRecord EXCEPT !.phones = <<P5555555555>>]>>,
     <<[JohnRecord EXCEPT !.phones = <<P9876543210>>], BobRecord>>,
     <<[JohnRecord EXCEPT !.birthday = NoBirthday]>>}

MainTodayInputs == {Day0, Date(LastYear, 8, 5)}

InitMain ==
    /\ book = EmptyBook
    /\ op = ""
    /\ result = NoCall
    /\ upcoming = NoUpcoming
    /\ today \in MainTodayInputs
    /\ \/ disk = NoFile /\ closed = EmptyBook
       \/ \E bk \in SavedBooks : disk = save_data(bk) /\ closed = bk
    /\ pc = "start"
    /\ display = <<>>

NextMain ==
    \/ Startup
    \/ \E line \in LineInputs : EmptyLine(line)
    \/ \E line \in LineInputs : CloseCommand(line)
    \/ \E line \in LineInputs : HelloCommand(line)
    \/ \E line \in LineInputs : AddCommand(line)
    \/ \E line \in LineInputs : ChangeCommand(line)
    \/ \E line \in LineInputs : PhoneCommand(line)
    \/ \E line \in LineInputs : AllCommand(line)
    \/ \E line \in LineInputs : AddBirthdayCommand(line)
    \/ \E line \in LineInputs : ShowBirthdayCommand(line)
    \/ \E line \in LineInputs : BirthdaysCommand(line)
    \/ \E line \in LineInputs : InvalidCommand(line)
    \/ NextRun

SpecMain == InitMain /\ [][NextMain]_vars

(***************************************************************************)
(* Properties of the Record methods and of the handlers.                   *)
(***************************************************************************)
\* A string of exactly ten decimal digits.
IsTenDigits(s) == Len(s) = PhoneLen /\ \A i \in 1..Len(s) : s[i] \in Digits

\* C1: edit_phone(old, new) with old present and new a valid phone replaces
\* old in place: same length, new at the index of the first old, every other
\* phone at its index.
C1_EditPhoneInPlace ==
    [][\A n \in Names, old \in OldPhoneInputs, new \in NewPhoneInputs :
         (/\ op' = "edit_phone"
          /\ n \in Keys(book)
          /\ Matches(find(book, n).phones, Str(old)) # {}
          /\ IsTenDigits(new)
          /\ EditPhoneCall(n, old, new))
         => find(book', n).phones =
                [find(book, n).phones EXCEPT ![Min(Matches(find(book, n).phones, Str(old)))] = new]]_vars

\* C2: edit_phone(old, new) with new not ten digits raises the validation
\* error, old present or not, and leaves the phones as they were.
C2_EditPhoneValidatesFirst ==
    [][\A n \in Names, old \in OldPhoneInputs, new \in NewPhoneInputs :
         (/\ op' = "edit_phone"
          /\ n \in Keys(book)
          /\ ~IsTenDigits(new)
          /\ EditPhoneCall(n, old, new))
         => /\ result' = Raised("ValueError", "Phone number must be 10 digits long")
            /\ book' = book]_vars

UniqueNames(bk) == \A i, j \in 1..Len(bk) : bk[i].name = bk[j].name => i = j

\* C4: add(name, phone) with a name (a non-empty string) and a valid phone
\* keeps one Record per name; for a name in the book it appends the phone to
\* that Record and changes nothing else (no Record added, earlier phones and
\* birthdays kept); for a new name it adds one Record holding the phone.
C4_AddMerges ==
    [][\A args \in AddArgs :
         (/\ op' = "add"
          /\ Len(args) = 2
          /\ IsTenDigits(args[2].v)
          /\ args[1].v # EmptyStr
          /\ AddCall(args))
         => /\ UniqueNames(book')
            /\ args[1].v \in Keys(book) =>
                 /\ Len(book') = Len(book)
                 /\ \A i \in 1..Len(book) :
                      /\ book'[i].name = book[i].name
                      /\ book'[i].birthday = book[i].birthday
                      /\ book'[i].phones =
                           IF book[i].name = args[1].v
                           THEN Append(book[i].phones, args[2].v)
                           ELSE book[i].phones
            /\ args[1].v \notin Keys(book) =>
                 /\ Len(book') = Len(book) + 1
                 /\ \A i \in 1..Len(book) : book'[i] = book[i]
                 /\ book'[Len(book')] = [name |-> args[1].v, phones |-> <<args[2].v>>,
                                         birthday |-> NoBirthday]]_vars

\* C4 witness: a second add for John appended a phone to the Record that
\* already held a phone and a birthday.
C4_Witness ==
    /\ result = Returned(Msg("Phone {} added to {}.", <<P5555555555, John>>))
    /\ Len(book) = 1
    /\ book[1].name = John
    /\ book[1].phones = <<P1234567890, P5555555555>>
    /\ book[1].birthday = Date(1990, 8, 10)

\* C8: add with other than 2 arguments and change with other than 3 return
\* their usage message and leave the book unchanged.
C8_UsageOnWrongArgCount ==
    [][/\ \A args \in AddArgs :
            (op' = "add" /\ Len(args) # 2 /\ AddCall(args))
            => /\ result' = Returned(Text("Usage: add [name] [phone]"))
               /\ book' = book
       /\ \A args \in ChangeArgs :
            (op' = "change" /\ Len(args) # 3 /\ ChangeCall(args))
            => /\ result' = Returned(Text("Usage: change [name] [old phone] [new phone]"))
               /\ book' = book]_vars

\* C9: every phone stored in every Record is a string of exactly ten
\* decimal digits.
C9_PhonesAreTenDigits ==
    \A i \in 1..Len(book) : \A j \in 1..Len(book[i].phones) : IsTenDigits(book[i].phones[j])

\* The number of days from td to the next day on or after td whose month
\* and day are those of the birthday.
Occurrences(birthday, td) ==
    {Date(y, birthday.m, birthday.d) : y \in {yy \in td.y..(td.y + 8) : ValidDate(yy, birthday.m, birthday.d)}}

DaysToNext(birthday, td) ==
    Min({Ordinal(o) - Ordinal(td) : o \in {x \in Occurrences(birthday, td) : Ordinal(x) >= Ordinal(td)}})

Due(record, td) == HasBirthday(record) /\ DaysToNext(record.birthday, td) \in 0..6

\* C3: get_upcoming_birthdays returns an entry for a Record if and only if
\* the Record has a birthday whose next occurrence on or after today is d
\* days away with 0 <= d <= 6, and the entry's days_until_birthday is d.
C3_UpcomingWindow ==
    [][op' = "get_upcoming_birthdays" /\ GetUpcomingBirthdaysCall =>
         \A i \in 1..Len(book) :
            /\ Due(book[i], today) <=>
                 \E k \in 1..Len(upcoming'.entries) : upcoming'.entries[k].name = book[i].name
            /\ \A k \in 1..Len(upcoming'.entries) :
                 upcoming'.entries[k].name = book[i].name =>
                    upcoming'.entries[k].days_until_birthday = DaysToNext(book[i].birthday, today)]_vars

\* C10: get_upcoming_birthdays returns a list for every book of real
\* birthdays and every today, and the birthdays handler reports the
\* upcoming birthdays rather than an error.
C10_UpcomingIsTotal ==
    [][/\ op' = "get_upcoming_birthdays" /\ GetUpcomingBirthdaysCall => ~IsRaise(upcoming'.res)
       /\ op' = "birthdays" /\ BirthdaysCall =>
            result'.msg.fmt \in {"No upcoming birthdays in the next 7 days.", "Name: {}, Birthday: {}"}]_vars

(***************************************************************************)
(* Properties of the command loop and of persistence.                      *)
(***************************************************************************)
\* A step of the loop that reads this line.
LineStep(line) ==
    \/ EmptyLine(line)
    \/ CloseCommand(line)
    \/ HelloCommand(line)
    \/ AddCommand(line)
    \/ ChangeCommand(line)
    \/ PhoneCommand(line)
    \/ AllCommand(line)
    \/ AddBirthdayCommand(line)
    \/ ShowBirthdayCommand(line)
    \/ BirthdaysCommand(line)
    \/ InvalidCommand(line)

\* The argument list is the line's tokens after the first.
ArgsAreTokens(args, tokens) ==
    /\ Len(args) = Len(tokens) - 1
    /\ \A i \in 1..Len(args) : IsStr(args[i]) /\ args[i].v = tokens[i + 1]

\* C5: the handler gets the tokens after the command as its arguments, so
\* the line "add N P" with a new name N and a ten-digit P leaves a Record
\* for N with phones [P] in the book.
C5_HandlerGetsTokens ==
    [][\A line \in LineInputs :
         (AtPrompt(line, Wadd) /\ AddCommand(line))
         => /\ ArgsAreTokens(StarArgs(line), Split(line))
            /\ (/\ Len(Split(line)) = 3
                /\ Split(line)[2] \notin Keys(book)
                /\ IsTenDigits(Split(line)[3]))
               => /\ Split(line)[2] \in Keys(book')
                  /\ find(book', Split(line)[2]).phones = <<Split(line)[3]>>]_vars

\* C6: every line other than close and exit (empty, unrecognized, or with
\* missing or invalid arguments) shows one message and returns to the
\* prompt, the loop never ends by an unhandled error, and an unrecognized
\* command leaves the book unchanged.  (The all command shows the contact
\* listing.)
C6_SessionContinues ==
    [][\A line \in LineInputs :
         (/\ pc = "prompt"
          /\ LineStep(line)
          /\ ParseRaises(line) \/ Command(line) \notin {Wclose, Wexit})
         => /\ pc' = "prompt"
            /\ ParseRaises(line) \/ Command(line) # Wall => Len(display') = 1
            /\ ParseRaises(line) \/ Command(line) \notin Commands => book' = book]_vars

====
